---- MODULE Spec2Model ----
(***************************************************************************)
(* Benchmark work deduplication and completion ledger of                   *)
(* valkey-perf-benchmark: utils/postgres_track_commits.py (the PostgreSQL  *)
(* ledger) and utils/workflow_commits.py (the file-backed ledger).         *)
(*                                                                         *)
(* Runners are independent processes, each with its own connection to the  *)
(* shared table benchmark_commits.  A statement sees the committed rows    *)
(* plus the uncommitted writes of its own transaction (READ COMMITTED).    *)
(***************************************************************************)
EXTENDS Integers, Sequences, FiniteSets, TLC

(***************************************************************************)
(* Bounds of the model.                                                    *)
(***************************************************************************)
MaxMarks == 2
MaxClock == 1
MaxArrayLen == 2

(***************************************************************************)
(* Configuration documents: the values json.load produces.  A value is a   *)
(* tagged record; objects are functions from keys to values, lists are     *)
(* sequences of values.  PyNone is Python's None (no --config-file).       *)
(***************************************************************************)
PyNone == [t |-> "none"]
Num(n) == [t |-> "num", n |-> n]
Bool(b) == [t |-> "bool", n |-> IF b THEN 1 ELSE 0]
List(e) == [t |-> "list", e |-> e]
Obj(f) == [t |-> "obj", f |-> f]

EmptyObj == Obj(<<>>)
EmptyList == List(<<>>)

\* isinstance(v, list) / isinstance(v, dict)
IsList(v) == v.t = "list"
IsDict(v) == v.t = "obj"

\* Python truth value of a document: "if config" / "Json(config) if config"
Truthy(v) ==
    CASE v.t = "none" -> FALSE
      [] v.t = "num" -> v.n # 0
      [] v.t = "bool" -> v.n # 0
      [] v.t = "list" -> Len(v.e) > 0
      [] v.t = "obj" -> DOMAIN v.f # {}
      [] OTHER -> TRUE

\* Python's == on documents: lists compare element by element in order,
\* dicts by key set and values, bool is a subclass of int (True == 1).
RECURSIVE PyEq(_, _)
PyEq(a, b) ==
    CASE a.t = "list" /\ b.t = "list" ->
            /\ Len(a.e) = Len(b.e)
            /\ \A i \in 1..Len(a.e) : PyEq(a.e[i], b.e[i])
      [] a.t = "obj" /\ b.t = "obj" ->
            /\ DOMAIN a.f = DOMAIN b.f
            /\ \A k \in DOMAIN a.f : PyEq(a.f[k], b.f[k])
      [] a.t \in {"num", "bool"} /\ b.t \in {"num", "bool"} -> a.n = b.n
      [] a.t = "none" /\ b.t = "none" -> TRUE
      [] OTHER -> FALSE

\* _is_list_subset with any() in place of all()
IsListSubsetAny(subset_list, superset_list) ==
    IF ~IsList(subset_list) \/ ~IsList(superset_list)
    THEN FALSE
    ELSE \E i \in 1..Len(subset_list.e) :
            \E j \in 1..Len(superset_list.e) :
                PyEq(subset_list.e[i], superset_list.e[j])

\* _is_list_subset as "return subset_list == superset_list"
IsListSubsetExact(subset_list, superset_list) ==
    IF ~IsList(subset_list) \/ ~IsList(superset_list)
    THEN FALSE
    ELSE PyEq(subset_list, superset_list)

\* _is_list_subset: all(item in superset_list for item in subset_list)
IsListSubset(subset_list, superset_list) ==
    IF ~IsList(subset_list) \/ ~IsList(superset_list)
    THEN FALSE
    ELSE \A i \in 1..Len(subset_list.e) :
            \E j \in 1..Len(superset_list.e) :
                PyEq(subset_list.e[i], superset_list.e[j])

\* _is_config_subset that also wants superset_config to have a further key
IsConfigSubsetProper(subset_config, superset_config) ==
    IF ~IsDict(subset_config) \/ ~IsDict(superset_config)
    THEN FALSE
    ELSE /\ DOMAIN subset_config.f # DOMAIN superset_config.f
         /\ \A key \in DOMAIN subset_config.f :
                /\ key \in DOMAIN superset_config.f
                /\ IF IsList(subset_config.f[key])
                      /\ IsList(superset_config.f[key])
                   THEN IsListSubset(subset_config.f[key],
                                     superset_config.f[key])
                   ELSE PyEq(subset_config.f[key], superset_config.f[key])

\* _is_config_subset
IsConfigSubset(subset_config, superset_config) ==
    IF ~IsDict(subset_config) \/ ~IsDict(superset_config)
    THEN FALSE
    ELSE \A key \in DOMAIN subset_config.f :
            /\ key \in DOMAIN superset_config.f
            /\ IF IsList(subset_config.f[key]) /\ IsList(superset_config.f[key])
               THEN IsListSubset(subset_config.f[key], superset_config.f[key])
               ELSE PyEq(subset_config.f[key], superset_config.f[key])

\* _is_config_array_subset matching the objects position by position
IsConfigArraySubsetPositional(subset_config, superset_config) ==
    IF ~IsList(subset_config) \/ ~IsList(superset_config)
    THEN FALSE
    ELSE /\ Len(subset_config.e) <= Len(superset_config.e)
         /\ \A i \in 1..Len(subset_config.e) :
                IsConfigSubset(subset_config.e[i], superset_config.e[i])

\* _is_config_array_subset
IsConfigArraySubset(subset_config, superset_config) ==
    IF ~IsList(subset_config) \/ ~IsList(superset_config)
    THEN FALSE
    ELSE \A i \in 1..Len(subset_config.e) :
            \E j \in 1..Len(superset_config.e) :
                IsConfigSubset(subset_config.e[i], superset_config.e[j])

(***************************************************************************)
(* The revision enumerator (git) and the universe of inputs.               *)
(***************************************************************************)
Runners == {"r1", "r2"}
Shas == {"c1", "c2", "c3"}
Architectures == {"x86_64", "arm64"}
InProgress == "in_progress"
Complete == "complete"
Statuses == {InProgress, Complete}

\* git rev-parse HEAD
GitHead == "c3"
ResolveSha(sha) == IF sha = "HEAD" THEN GitHead ELSE sha

\* _git_commit_time: the commit's authoring time
GitCommitTime(sha) == CASE sha = "c1" -> 1 [] sha = "c2" -> 2 [] OTHER -> 3

\* The documents used as --config-file contents.
Clients(e) == Obj([clients |-> List(e)])
K12 == Clients(<<Num(1), Num(2)>>)
K124 == Clients(<<Num(1), Num(2), Num(4)>>)
K128 == Clients(<<Num(1), Num(2), Num(8)>>)
A12 == List(<<K12>>)
A124 == List(<<K124>>)

(***************************************************************************)
(* The table benchmark_commits and the SQL statements run against it.      *)
(* A row is [id, sha, timestamp, status, config, architecture, created_at, *)
(* updated_at]; config holds the JSONB value.                              *)
(***************************************************************************)

\* psycopg2's Json(x): the JSONB value stored for a Python document
Json(v) == IF v.t = "none" THEN [t |-> "null"] ELSE v

\* the config parameter of the INSERT: Json(config) if config else Json({})
StoredConfig(config) == IF Truthy(config) THEN Json(config) ELSE Json(EmptyObj)

\* the columns of CONSTRAINT unique_sha_config_arch
Key(row) == <<row.sha, row.config, row.architecture>>
Keys(rows) == {Key(row) : row \in rows}

\* a plain INSERT into a table without the unique constraint
UpsertRowInsertOnly(rows, id, sha, status, config, ts, architecture, t) ==
    [id |-> id, sha |-> sha, timestamp |-> ts, status |-> status,
     config |-> config, architecture |-> architecture,
     created_at |-> t, updated_at |-> t]

\* INSERT ... ON CONFLICT (sha, config, architecture) DO NOTHING
UpsertRowDoNothing(rows, id, sha, status, config, ts, architecture, t) ==
    LET key == <<sha, config, architecture>>
    IN  IF key \in {<<row.sha, row.config, row.architecture>> : row \in rows}
        THEN CHOOSE row \in rows :
                <<row.sha, row.config, row.architecture>> = key
        ELSE [id |-> id, sha |-> sha, timestamp |-> ts, status |-> status,
              config |-> config, architecture |-> architecture,
              created_at |-> t, updated_at |-> t]

\* INSERT ... ON CONFLICT (sha, config, architecture) DO UPDATE SET
\* status = EXCLUDED.status, updated_at = NOW(); the row version written
UpsertRow(rows, id, sha, status, config, ts, architecture, t) ==
    LET key == <<sha, config, architecture>>
    IN  IF key \in Keys(rows)
        THEN LET old == CHOOSE row \in rows : Key(row) = key
             IN  [old EXCEPT !.status = status, !.updated_at = t]
        ELSE [id |-> id, sha |-> sha, timestamp |-> ts, status |-> status,
              config |-> config, architecture |-> architecture,
              created_at |-> t, updated_at |-> t]

\* DELETE ... WHERE status = 'in-progress': the misspelt status matches no row
DeletedRowsNone(rows) == {row \in rows : row.status = "in-progress"}

\* DELETE ... WHERE status = 'in_progress' AND architecture = 'x86_64'
DeletedRowsOneArch(rows) ==
    {row \in rows : row.status = "in_progress" /\ row.architecture = "x86_64"}

\* DELETE FROM benchmark_commits RETURNING id (no WHERE clause)
DeletedRowsAll(rows) == rows

\* DELETE FROM benchmark_commits WHERE status = 'in_progress' RETURNING id
DeletedRows(rows) == {row \in rows : row.status = InProgress}

\* the exact-match query without "status = 'complete'"
ExactCompletedAnyStatus(rows, config, architecture) ==
    IF Truthy(config)
    THEN {row.sha : row \in {x \in rows : /\ x.config = Json(config)
                                          /\ x.architecture = architecture}}
    ELSE {row.sha : row \in {x \in rows : x.architecture = architecture}}

\* the exact-match query with the config filter in both branches, an absent
\* config read as the empty object
ExactCompletedAlwaysConfig(rows, config, architecture) ==
    {row.sha : row \in {x \in rows : /\ x.status = "complete"
                                     /\ x.config = StoredConfig(config)
                                     /\ x.architecture = architecture}}

\* SELECT DISTINCT sha ... WHERE status = 'complete' [AND config = %s]
\* AND architecture = %s, under "if config"
ExactCompleted(rows, config, architecture) ==
    IF Truthy(config)
    THEN {row.sha : row \in {x \in rows : /\ x.status = Complete
                                          /\ x.config = Json(config)
                                          /\ x.architecture = architecture}}
    ELSE {row.sha : row \in {x \in rows : /\ x.status = Complete
                                          /\ x.architecture = architecture}}

\* _find_superset_configs that merges the completed configs of the commit: every
\* element of every list field of target is in that field of some completed
\* config
FindSupersetConfigsUnion(rows, sha, target_config, architecture) ==
    LET completed_configs ==
            {row.config : row \in {x \in rows : /\ x.sha = sha
                                                /\ x.status = "complete"
                                                /\ x.architecture = architecture}}
    IN  IF /\ IsDict(target_config)
           /\ \A key \in DOMAIN target_config.f :
                /\ IsList(target_config.f[key])
                /\ \A i \in 1..Len(target_config.f[key].e) :
                     \E c \in completed_configs :
                        /\ IsDict(c)
                        /\ key \in DOMAIN c.f
                        /\ IsListSubset(List(<<target_config.f[key].e[i]>>),
                                        c.f[key])
        THEN completed_configs
        ELSE {}

\* _find_superset_configs without the architecture filter
FindSupersetConfigsAnyArch(rows, sha, target_config, architecture) ==
    LET completed_configs ==
            {row.config : row \in {x \in rows : /\ x.sha = sha
                                                /\ x.status = Complete}}
    IN  {completed_config \in completed_configs :
            \/ /\ IsList(target_config) /\ IsList(completed_config)
               /\ IsConfigArraySubset(target_config, completed_config)
            \/ /\ IsDict(target_config) /\ IsDict(completed_config)
               /\ IsConfigSubset(target_config, completed_config)}

\* _find_superset_configs: the completed configs of sha that cover target
FindSupersetConfigs(rows, sha, target_config, architecture) ==
    LET completed_configs ==
            {row.config : row \in {x \in rows : /\ x.sha = sha
                                                /\ x.status = Complete
                                                /\ x.architecture = architecture}}
    IN  {completed_config \in completed_configs :
            \/ /\ IsList(target_config) /\ IsList(completed_config)
               /\ IsConfigArraySubset(target_config, completed_config)
            \/ /\ IsDict(target_config) /\ IsDict(completed_config)
               /\ IsConfigSubset(target_config, completed_config)}

(***************************************************************************)
(* State.                                                                  *)
(*   ledger  the committed rows of benchmark_commits                       *)
(*   seq     the next value of the SERIAL sequence behind id               *)
(*   now     the database clock read by NOW()                              *)
(*   rs      per runner: its position (pc), the arguments of the call in   *)
(*           progress or last returned (args), the locals of that call     *)
(*           and the uncommitted writes of its open transaction (tx)       *)
(*   nmarks  the number of mark_commits calls made so far, by all runners  *)
(*   call    a direct call of one of the comparison functions: its name,   *)
(*           arguments, position and return value                          *)
(*   file    the contents of completed_commits.json, the ledger of         *)
(*           workflow_commits.py                                           *)
(*   ws      per process running workflow_commits.py: its position, the    *)
(*           arguments of its call, its local list commits and its result  *)
(***************************************************************************)
VARIABLES ledger, seq, now, rs, nmarks, call, file, ws

vars == <<ledger, seq, now, rs, nmarks, call, file, ws>>

NoArgs == [op |-> "none", shas |-> <<>>, status |-> Complete,
           architecture |-> "x86_64", config |-> PyNone, max_commits |-> 0,
           enable_subset_detection |-> TRUE]

\* a runner between two invocations: no connection, no locals
Idle == [pc |-> "idle", args |-> NoArgs, i |-> 0, all_shas |-> <<>>,
         exact_completed |-> {}, commits |-> <<>>, count |-> 0, tx |-> {},
         txnow |-> 0, snap |-> {}]

\* no comparison function is being called directly
NoCall == [fn |-> "none", subset_config |-> PyNone, superset_config |-> PyNone,
           pc |-> "none", result |-> FALSE]

\* completed_commits.json does not exist yet
NoFile == [state |-> "absent", entries |-> <<>>]

\* a process that is not running workflow_commits.py
WIdle == [pc |-> "idle", op |-> "none", shas |-> <<>>, status |-> Complete,
          max_commits |-> 0, commits |-> <<>>, result |-> <<>>]

Init ==
    /\ ledger = {}
    /\ seq = 1
    /\ now = 0
    /\ nmarks = 0
    /\ rs = [r \in Runners |-> Idle]
    /\ call = NoCall
    /\ file = NoFile
    /\ ws = [p \in Runners |-> WIdle]

\* what the statements of runner r see: committed rows, with the rows its own
\* open transaction has written replaced by the versions it wrote
Ids(rows) == {row.id : row \in rows}
View(r) == {row \in ledger : row.id \notin Ids(rs[r].tx)} \cup rs[r].tx

\* row locks: keys written by the open transaction of another runner
LockedByOther(r) == UNION {Keys(rs[q].tx) : q \in Runners \ {r}}

Start(r, a) ==
    /\ rs[r].pc = "idle"
    /\ (a.op = "mark" => nmarks < MaxMarks)
    /\ nmarks' = IF a.op = "mark" THEN nmarks + 1 ELSE nmarks
    /\ rs' = [rs EXCEPT ![r] = [Idle EXCEPT !.pc = a.op, !.args = a, !.i = 1]]
    /\ UNCHANGED <<file, ws, call, ledger, seq, now>>

\* mark_commits is entered (create_tables commits before the loop)
CallMark(r, shas, status, architecture, config) ==
    Start(r, [NoArgs EXCEPT !.op = "mark", !.shas = shas, !.status = status,
                            !.architecture = architecture, !.config = config])

\* "git show -s --format=%cI sha" succeeds for the commits of the repository
InRepo(sha) == sha \in Shas

\* the iteration with UPDATE ... SET status WHERE (sha, config, architecture)
\* in place of the INSERT: a triple without a row is left without one
MarkUpsertUpdateOnly(r) ==
    LET a == rs[r].args
        sha == ResolveSha(a.shas[rs[r].i])
        config == StoredConfig(a.config)
        t == IF rs[r].tx = {} THEN now ELSE rs[r].txnow
        new == UpsertRow(View(r), seq, sha, a.status, config,
                         GitCommitTime(sha), a.architecture, t)
    IN  /\ rs[r].pc = "mark"
        /\ rs[r].i <= Len(a.shas)
        /\ InRepo(sha)
        /\ <<sha, config, a.architecture>> \notin LockedByOther(r)
        /\ rs' = [rs EXCEPT ![r] = [@ EXCEPT
                    !.tx = IF new.id = seq THEN @
                           ELSE {row \in @ : row.id # new.id} \cup {new},
                    !.txnow = t, !.i = @ + 1]]
        /\ seq' = seq + 1
        /\ UNCHANGED <<file, ws, call, ledger, now, nmarks>>

\* one iteration of "for sha in shas": resolve HEAD, look up the commit
\* time, run the INSERT ... ON CONFLICT inside the open transaction.  The
\* statement waits while another transaction holds the key.
MarkUpsert(r) ==
    LET a == rs[r].args
        sha == ResolveSha(a.shas[rs[r].i])
        config == StoredConfig(a.config)
        t == IF rs[r].tx = {} THEN now ELSE rs[r].txnow
        new == UpsertRow(View(r), seq, sha, a.status, config,
                         GitCommitTime(sha), a.architecture, t)
    IN  /\ rs[r].pc = "mark"
        /\ rs[r].i <= Len(a.shas)
        /\ InRepo(sha)
        /\ <<sha, config, a.architecture>> \notin LockedByOther(r)
        /\ rs' = [rs EXCEPT ![r] = [@ EXCEPT
                    !.tx = {row \in @ : row.id # new.id} \cup {new},
                    !.txnow = t, !.i = @ + 1]]
        /\ seq' = seq + 1
        /\ UNCHANGED <<file, ws, call, ledger, now, nmarks>>

\* conn.commit() at the end of mark_commits
MarkCommit(r) ==
    /\ rs[r].pc = "mark"
    /\ rs[r].i > Len(rs[r].args.shas)
    /\ ledger' = View(r)
    /\ rs' = [rs EXCEPT ![r] = [@ EXCEPT !.pc = "done", !.tx = {}, !.txnow = 0]]
    /\ UNCHANGED <<file, ws, call, seq, now, nmarks>>

\* an iteration that raises, with the rows written so far committed first
MarkRaiseKeeping(r) ==
    LET a == rs[r].args
    IN  /\ rs[r].pc = "mark"
        /\ rs[r].i <= Len(a.shas)
        /\ ~InRepo(ResolveSha(a.shas[rs[r].i]))
        /\ ledger' = View(r)
        /\ rs' = [rs EXCEPT ![r] = [@ EXCEPT !.pc = "failed", !.tx = {},
                                             !.txnow = 0]]
        /\ UNCHANGED <<file, ws, call, seq, now, nmarks>>

\* an iteration of "for sha in shas" raises: _git_commit_time runs git with
\* check=True, and git knows no such commit.  Nothing catches the exception;
\* the finally clause of main closes the connection, which discards the
\* open transaction with every row the call has written so far.
MarkRaise(r) ==
    LET a == rs[r].args
    IN  /\ rs[r].pc = "mark"
        /\ rs[r].i <= Len(a.shas)
        /\ ~InRepo(ResolveSha(a.shas[rs[r].i]))
        /\ rs' = [rs EXCEPT ![r] = [@ EXCEPT !.pc = "failed", !.tx = {},
                                             !.txnow = 0]]
        /\ UNCHANGED <<file, ws, call, ledger, seq, now, nmarks>>

\* the next INSERT of runner r waits for a row that the open transaction of
\* runner q has written
WaitsFor(r, q) ==
    LET a == rs[r].args
    IN  /\ rs[r].pc = "mark"
        /\ rs[r].i <= Len(a.shas)
        /\ InRepo(ResolveSha(a.shas[rs[r].i]))
        /\ <<ResolveSha(a.shas[rs[r].i]), StoredConfig(a.config),
             a.architecture>> \in Keys(rs[q].tx)

\* the INSERT of runner r waits for runner q while q waits for r: the
\* database detects the deadlock and makes the statement of one of the two
\* raise.  Nothing catches the exception; main closes the connection and
\* the transaction of r is discarded.
MarkDeadlock(r) ==
    /\ \E q \in Runners \ {r} : WaitsFor(r, q) /\ WaitsFor(q, r)
    /\ rs' = [rs EXCEPT ![r] = [@ EXCEPT !.pc = "failed", !.tx = {},
                                         !.txnow = 0]]
    /\ UNCHANGED <<file, ws, call, ledger, seq, now, nmarks>>

\* cleanup_incomplete_commits is entered on its own (the cleanup operation)
CallCleanup(r) == Start(r, [NoArgs EXCEPT !.op = "cleanup"])

\* determine_commits_to_benchmark is entered
CallDetermine(r, max_commits, architecture, config, enable_subset_detection) ==
    Start(r, [NoArgs EXCEPT !.op = "determine", !.max_commits = max_commits,
                            !.architecture = architecture, !.config = config,
                            !.enable_subset_detection = enable_subset_detection])

\* where a runner continues after cleanup_incomplete_commits returns
AfterCleanup(r) == IF rs[r].args.op = "determine" THEN "det_query" ELSE "done"

\* the DELETE of cleanup_incomplete_commits and its commit.  The statement
\* deletes the in_progress rows of its snapshot; a row of the snapshot that
\* another open transaction has written makes the statement wait.
CleanupDelete(r) ==
    LET deleted == DeletedRows(ledger)
    IN  /\ rs[r].pc \in {"cleanup", "determine"}
        /\ IF Keys(deleted) \cap LockedByOther(r) = {}
           THEN /\ ledger' = ledger \ deleted
                /\ rs' = [rs EXCEPT ![r] = [@ EXCEPT
                            !.count = Cardinality(deleted),
                            !.pc = AfterCleanup(r)]]
           ELSE /\ ledger' = ledger
                /\ rs' = [rs EXCEPT ![r] = [@ EXCEPT
                            !.snap = {row.id : row \in deleted},
                            !.pc = "cleanup_wait"]]
        /\ UNCHANGED <<file, ws, call, seq, now, nmarks>>

\* the waiting DELETE resumes once the rows of its snapshot are unlocked: it
\* re-checks the latest version of each and deletes those still in_progress
CleanupResume(r) ==
    LET deleted == {row \in DeletedRows(ledger) : row.id \in rs[r].snap}
    IN  /\ rs[r].pc = "cleanup_wait"
        /\ {Key(row) : row \in {x \in ledger : x.id \in rs[r].snap}}
                \cap LockedByOther(r) = {}
        /\ ledger' = ledger \ deleted
        /\ rs' = [rs EXCEPT ![r] = [@ EXCEPT
                    !.count = Cardinality(deleted), !.snap = {},
                    !.pc = AfterCleanup(r)]]
        /\ UNCHANGED <<file, ws, call, seq, now, nmarks>>

\* all_shas = _git_rev_list(repo, branch), then the exact-match query
DetQuery(r, rev_list) ==
    /\ rs[r].pc = "det_query"
    /\ rs' = [rs EXCEPT ![r] = [@ EXCEPT
                !.all_shas = rev_list,
                !.exact_completed =
                    ExactCompleted(ledger, rs[r].args.config,
                                   rs[r].args.architecture),
                !.i = 1, !.pc = "det_loop"]]
    /\ UNCHANGED <<file, ws, call, ledger, seq, now, nmarks>>

\* the loop body without the exact-match test
SkippedSubsetOnly(rows, exact_completed, sha, a) ==
    /\ a.enable_subset_detection
    /\ Truthy(a.config)
    /\ FindSupersetConfigs(rows, sha, a.config, a.architecture) # {}

\* the loop body with enable_subset_detection ignored
SkippedFlagIgnored(rows, exact_completed, sha, a) ==
    \/ sha \in exact_completed
    \/ /\ Truthy(a.config)
       /\ FindSupersetConfigs(rows, sha, a.config, a.architecture) # {}

\* does the loop body "continue" for sha (exact match or covered config)?
Skipped(rows, exact_completed, sha, a) ==
    \/ sha \in exact_completed
    \/ /\ a.enable_subset_detection
       /\ Truthy(a.config)
       /\ FindSupersetConfigs(rows, sha, a.config, a.architecture) # {}

\* the loop with "if len(commits) > max_commits: break"
DetLoopOffByOne(r) ==
    LET a == rs[r].args
        sha == rs[r].all_shas[rs[r].i]
        appended == Append(rs[r].commits, sha)
    IN  /\ rs[r].pc = "det_loop"
        /\ rs[r].i <= Len(rs[r].all_shas)
        /\ rs' = [rs EXCEPT ![r] =
                    IF \/ sha \in rs[r].exact_completed
                       \/ /\ a.enable_subset_detection
                          /\ Truthy(a.config)
                          /\ FindSupersetConfigs(ledger, sha, a.config,
                                                 a.architecture) # {}
                    THEN [@ EXCEPT !.i = @ + 1]
                    ELSE IF Len(appended) > a.max_commits
                         THEN [@ EXCEPT !.commits = appended,
                                        !.i = Len(rs[r].all_shas) + 1]
                         ELSE [@ EXCEPT !.commits = appended, !.i = @ + 1]]
        /\ UNCHANGED <<file, ws, call, ledger, seq, now, nmarks>>

\* one iteration of "for sha in all_shas"
DetLoop(r) ==
    LET a == rs[r].args
        sha == rs[r].all_shas[rs[r].i]
        appended == Append(rs[r].commits, sha)
    IN  /\ rs[r].pc = "det_loop"
        /\ rs[r].i <= Len(rs[r].all_shas)
        /\ rs' = [rs EXCEPT ![r] =
                    IF Skipped(ledger, rs[r].exact_completed, sha, a)
                    THEN [@ EXCEPT !.i = @ + 1]
                    ELSE IF Len(appended) >= a.max_commits
                         THEN [@ EXCEPT !.commits = appended,
                                        !.i = Len(rs[r].all_shas) + 1]
                         ELSE [@ EXCEPT !.commits = appended, !.i = @ + 1]]
        /\ UNCHANGED <<file, ws, call, ledger, seq, now, nmarks>>

\* a determine that records what it returns as in_progress before returning
DetReturnMarking(r) ==
    LET a == rs[r].args
        c == rs[r].commits
        fresh == {j \in 1..Len(c) :
                    <<c[j], StoredConfig(a.config), a.architecture>>
                        \notin {<<row.sha, row.config, row.architecture>> :
                                    row \in ledger}}
    IN  /\ rs[r].pc = "det_loop"
        /\ rs[r].i > Len(rs[r].all_shas)
        /\ ledger' = ledger \cup
                {[id |-> seq + j - 1, sha |-> c[j],
                  timestamp |-> GitCommitTime(c[j]), status |-> "in_progress",
                  config |-> StoredConfig(a.config),
                  architecture |-> a.architecture,
                  created_at |-> now, updated_at |-> now] : j \in fresh}
        /\ seq' = seq + Len(c)
        /\ rs' = [rs EXCEPT ![r] = [@ EXCEPT !.pc = "done"]]
        /\ UNCHANGED <<file, ws, call, now, nmarks>>

\* return commits
DetReturn(r) ==
    /\ rs[r].pc = "det_loop"
    /\ rs[r].i > Len(rs[r].all_shas)
    /\ rs' = [rs EXCEPT ![r] = [@ EXCEPT !.pc = "done"]]
    /\ UNCHANGED <<file, ws, call, ledger, seq, now, nmarks>>

\* the invocation ends: main prints the result and closes the connection
Exit(r) ==
    /\ rs[r].pc \in {"done", "failed"}
    /\ rs' = [rs EXCEPT ![r] = Idle]
    /\ UNCHANGED <<file, ws, call, ledger, seq, now, nmarks>>

\* the database clock advances
Tick ==
    /\ now < MaxClock
    /\ now' = now + 1
    /\ UNCHANGED <<file, ws, call, ledger, seq, rs, nmarks>>

(***************************************************************************)
(* The file-backed ledger of workflow_commits.py.  The file is a JSON      *)
(* array of entries {sha, timestamp, status}.  Its contents are modelled   *)
(* by what a reader finds: no file ("absent"), a file of size zero         *)
(* ("empty"), the beginning of an array that is never closed ("partial",   *)
(* with the entries that were written in full) or a whole array ("whole"). *)
(***************************************************************************)
FileEntry(sha, ts, status) == [sha |-> sha, timestamp |-> ts, status |-> status]

\* json.dump(commits, f): the whole array is in the file
Dump(commits) == [state |-> "whole", entries |-> commits]

\* load_commits: [] unless the file exists, is not empty and parses
LoadCommits(f) == IF f.state = "whole" THEN f.entries ELSE <<>>

\* completed_shas: the sha of every entry, whatever its status
CompletedShas(f) ==
    {LoadCommits(f)[j].sha : j \in 1..Len(LoadCommits(f))}

\* the loop of mark_commits over shas, on the local list commits
RECURSIVE MarkEntries(_, _, _)
MarkEntries(commits, shas, status) ==
    IF shas = <<>> THEN commits
    ELSE LET sha == ResolveSha(Head(shas))
             found == {j \in 1..Len(commits) : commits[j].sha = sha}
             first == CHOOSE j \in found : \A k \in found : j <= k
             marked == IF found # {}
                       THEN [commits EXCEPT ![first].status = status]
                       ELSE Append(commits,
                                   FileEntry(sha, GitCommitTime(sha), status))
         IN  MarkEntries(marked, Tail(shas), status)

\* the loop of determine_commits_to_benchmark over git rev-list: append what
\* is not seen, and test the bound after every candidate
RECURSIVE SelectCommits(_, _, _, _)
SelectCommits(all_shas, seen, max_commits, commits) ==
    IF all_shas = <<>> THEN commits
    ELSE LET c == IF Head(all_shas) \notin seen
                  THEN Append(commits, Head(all_shas)) ELSE commits
         IN  IF Len(c) >= max_commits THEN c
             ELSE SelectCommits(Tail(all_shas), seen, max_commits, c)

\* the entries cleanup_in_progress_commits keeps
CleanedCommits(commits) == SelectSeq(commits, LAMBDA e : e.status # InProgress)

\* main: the mark command
FileCallMark(p, shas, status) ==
    /\ ws[p].pc = "idle"
    /\ nmarks < MaxMarks
    /\ nmarks' = nmarks + 1
    /\ ws' = [ws EXCEPT ![p] = [WIdle EXCEPT !.pc = "load", !.op = "mark",
                                             !.shas = shas, !.status = status]]
    /\ UNCHANGED <<file, ledger, seq, now, rs, call>>

\* mark_commits up to save_commits: load the file, update the local list
FileMarkLoad(p) ==
    /\ ws[p].pc = "load"
    /\ ws[p].op = "mark"
    /\ \A k \in 1..Len(ws[p].shas) : InRepo(ResolveSha(ws[p].shas[k]))
    /\ ws' = [ws EXCEPT ![p] = [@ EXCEPT
                !.commits = MarkEntries(LoadCommits(file), ws[p].shas,
                                        ws[p].status),
                !.pc = "open"]]
    /\ UNCHANGED <<file, ledger, seq, now, rs, nmarks, call>>

\* save_commits: path.open("w") truncates the file
FileSaveOpen(p) ==
    /\ ws[p].pc = "open"
    /\ file' = [state |-> "empty", entries |-> <<>>]
    /\ ws' = [ws EXCEPT ![p] = [@ EXCEPT !.pc = "dump"]]
    /\ UNCHANGED <<ledger, seq, now, rs, nmarks, call>>

\* save_commits: json.dump writes the local list and the file is closed;
\* mark_commits returns, determine goes on after its cleanup
FileSaveDump(p) ==
    /\ ws[p].pc = "dump"
    /\ file' = Dump(ws[p].commits)
    /\ ws' = [ws EXCEPT ![p] = [@ EXCEPT
                !.pc = IF ws[p].op = "determine" THEN "select" ELSE "done"]]
    /\ UNCHANGED <<ledger, seq, now, rs, nmarks, call>>

\* the process is killed inside json.dump: the file keeps the beginning of
\* the array, with the first n entries, and no closing bracket
FileKill(p) ==
    /\ ws[p].pc = "dump"
    /\ \E n \in 0..Len(ws[p].commits) :
            file' = [state |-> "partial",
                     entries |-> SubSeq(ws[p].commits, 1, n)]
    /\ ws' = [ws EXCEPT ![p] = WIdle]
    /\ UNCHANGED <<ledger, seq, now, rs, nmarks, call>>

\* main: the determine command
FileCallDetermine(p, max_commits) ==
    /\ ws[p].pc = "idle"
    /\ ws' = [ws EXCEPT ![p] = [WIdle EXCEPT !.pc = "load",
                                             !.op = "determine",
                                             !.max_commits = max_commits]]
    /\ UNCHANGED <<file, ledger, seq, now, rs, nmarks, call>>

\* cleanup_in_progress_commits up to save_commits: nothing to save when no
\* entry is in_progress
FileCleanup(p) ==
    LET commits == LoadCommits(file)
        cleaned_commits == CleanedCommits(commits)
    IN  /\ ws[p].pc = "load"
        /\ ws[p].op = "determine"
        /\ ws' = [ws EXCEPT ![p] =
                    IF Len(cleaned_commits) = Len(commits)
                    THEN [@ EXCEPT !.pc = "select"]
                    ELSE [@ EXCEPT !.commits = cleaned_commits,
                                   !.pc = "open"]]
        /\ UNCHANGED <<file, ledger, seq, now, rs, nmarks, call>>

\* the rest of determine_commits_to_benchmark: seen, the loop, return
FileDetermine(p, rev_list) ==
    /\ ws[p].pc = "select"
    /\ ws' = [ws EXCEPT ![p] = [@ EXCEPT
                !.result = SelectCommits(rev_list, CompletedShas(file),
                                         ws[p].max_commits, <<>>),
                !.pc = "done"]]
    /\ UNCHANGED <<file, ledger, seq, now, rs, nmarks, call>>

\* the process ends
FileExit(p) ==
    /\ ws[p].pc = "done"
    /\ ws' = [ws EXCEPT ![p] = WIdle]
    /\ UNCHANGED <<file, ledger, seq, now, rs, nmarks, call>>

(***************************************************************************)
(* Specifications.                                                         *)
(***************************************************************************)

\* sequences without repetition over a set (git rev-list output, batches)
RECURSIVE Perms(_)
Perms(S) ==
    IF S = {} THEN {<<>>}
    ELSE UNION {{<<x>> \o p : p \in Perms(S \ {x})} : x \in S}

\* inputs of the concurrent specification
ConcBatches == {<<"c1">>, <<"c2", "c1">>}
ConcConfigs == {PyNone, K12}
ConcRevLists == {<<"c2", "c1">>}
ConcMaxCommits == {1}
ConcArchitectures == {"x86_64"}

\* Spec: any number of calls overlap, statement by statement
Next ==
    \E r \in Runners :
        \/ \E shas \in ConcBatches, status \in Statuses,
              architecture \in ConcArchitectures, config \in ConcConfigs :
                CallMark(r, shas, status, architecture, config)
        \/ MarkUpsert(r)
        \/ MarkCommit(r)
        \/ CallCleanup(r)
        \/ \E max_commits \in ConcMaxCommits, architecture \in ConcArchitectures,
              config \in ConcConfigs, enable \in {TRUE} :
                CallDetermine(r, max_commits, architecture, config, enable)
        \/ CleanupDelete(r)
        \/ CleanupResume(r)
        \/ \E rev_list \in ConcRevLists : DetQuery(r, rev_list)
        \/ DetLoop(r)
        \/ DetReturn(r)
        \/ Exit(r)

Spec == Init /\ [][Next]_vars

\* inputs of the sequential specification
SeqBatches == {<<"c2">>, <<"HEAD">>}
SeqMarkConfigs == {PyNone, K124, A124}
SeqConfigs == {PyNone, K12, K124, K128, A12}
SeqMaxCommits == {-1, 0, 1, 2}
SeqRevLists == Perms(Shas) \cup {<<>>, <<"c2">>}

\* SeqSpec: one runner making one call after another, nothing overlapping
SeqNext ==
    \E r \in {"r1"} :
        \/ \E shas \in SeqBatches, status \in Statuses,
              architecture \in Architectures, config \in SeqMarkConfigs :
                CallMark(r, shas, status, architecture, config)
        \/ MarkUpsert(r)
        \/ MarkCommit(r)
        \/ CallCleanup(r)
        \/ \E max_commits \in SeqMaxCommits, config \in SeqConfigs,
              enable \in BOOLEAN :
                CallDetermine(r, max_commits, "x86_64", config, enable)
        \/ CleanupDelete(r)
        \/ \E rev_list \in SeqRevLists : DetQuery(r, rev_list)
        \/ DetLoop(r)
        \/ DetReturn(r)
        \/ Exit(r)

SeqSpec == Init /\ [][SeqNext]_vars

\* MarkSpec: one runner, one call after another, with the clock running
MarkNext ==
    \/ \E r \in {"r1"} :
        \/ \E shas \in ConcBatches, status \in Statuses,
              architecture \in Architectures, config \in ConcConfigs :
                CallMark(r, shas, status, architecture, config)
        \/ MarkUpsert(r)
        \/ MarkCommit(r)
        \/ CallCleanup(r)
        \/ \E max_commits \in ConcMaxCommits, architecture \in Architectures,
              config \in ConcConfigs, enable \in BOOLEAN :
                CallDetermine(r, max_commits, architecture, config, enable)
        \/ CleanupDelete(r)
        \/ \E rev_list \in ConcRevLists : DetQuery(r, rev_list)
        \/ DetLoop(r)
        \/ DetReturn(r)
        \/ Exit(r)
    \/ Tick

MarkSpec == Init /\ [][MarkNext]_vars

\* inputs of the coverage specification: client counts benchmarked one by one
K1 == Clients(<<Num(1)>>)
K2 == Clients(<<Num(2)>>)
CoverMarkConfigs == {K1, K2, K124}
CoverRevLists == {<<"c2", "c1">>}
CoverMaxCommits == {1, 2}

\* CoverSpec: one runner records runs of c2 under partial configurations and
\* asks what is left to do for {"clients":[1,2]}
CoverNext ==
    \E r \in {"r1"} :
        \/ \E status \in Statuses, config \in CoverMarkConfigs :
                CallMark(r, <<"c2">>, status, "x86_64", config)
        \/ MarkUpsert(r)
        \/ MarkCommit(r)
        \/ \E max_commits \in CoverMaxCommits, enable \in BOOLEAN :
                CallDetermine(r, max_commits, "x86_64", K12, enable)
        \/ CleanupDelete(r)
        \/ \E rev_list \in CoverRevLists : DetQuery(r, rev_list)
        \/ DetLoop(r)
        \/ DetReturn(r)
        \/ Exit(r)

CoverSpec == Init /\ [][CoverNext]_vars

(***************************************************************************)
(* A deployment: every runner repeats the cycle determine, mark what it    *)
(* was handed in_progress, benchmark, mark it complete.  Calls of          *)
(* determine are serialized, and a runner marks right after its call       *)
(* returns; a runner may die while benchmarking.                           *)
(***************************************************************************)
DeployConfigs == {PyNone, K12}
DeployRevLists == {<<"c2", "c1">>}
DeployMaxCommits == {1}

\* runner q is inside determine, or back from it and about to mark
MidDetermine(q) == rs[q].args.op = "determine" /\ rs[q].pc # "idle"

\* runner q is inside the mark_commits call that claims what it was handed
Claiming(q) ==
    rs[q].args.op = "mark" /\ rs[q].args.status = InProgress /\ rs[q].pc = "mark"

\* a runner calls determine once no other runner is inside determine or
\* between its return and the end of the claim
SerialDetermine(r, max_commits, config) ==
    /\ \A q \in Runners \ {r} : ~MidDetermine(q) /\ ~Claiming(q)
    /\ CallDetermine(r, max_commits, "x86_64", config, TRUE)

\* back from determine, the runner calls mark_commits(in_progress) with the
\* commits it was handed, for the same config and architecture
ClaimHanded(r) ==
    /\ rs[r].pc = "done"
    /\ rs[r].args.op = "determine"
    /\ rs[r].commits # <<>>
    /\ nmarks < MaxMarks
    /\ nmarks' = nmarks + 1
    /\ rs' = [rs EXCEPT ![r] =
                [Idle EXCEPT !.pc = "mark", !.i = 1,
                             !.args = [NoArgs EXCEPT
                                !.op = "mark", !.shas = rs[r].commits,
                                !.status = InProgress,
                                !.architecture = rs[r].args.architecture,
                                !.config = rs[r].args.config]]]
    /\ UNCHANGED <<file, ws, call, ledger, seq, now>>

\* the benchmark is over: the runner calls mark_commits(complete) with the
\* same commits
FinishWork(r) ==
    /\ rs[r].pc = "done"
    /\ rs[r].args.op = "mark"
    /\ rs[r].args.status = InProgress
    /\ nmarks < MaxMarks
    /\ nmarks' = nmarks + 1
    /\ rs' = [rs EXCEPT ![r] =
                [Idle EXCEPT !.pc = "mark", !.i = 1,
                             !.args = [rs[r].args EXCEPT !.status = Complete]]]
    /\ UNCHANGED <<file, ws, call, ledger, seq, now>>

\* the runner dies while benchmarking, after its claim was committed
Crash(r) ==
    /\ rs[r].pc = "done"
    /\ rs[r].args.op = "mark"
    /\ rs[r].args.status = InProgress
    /\ rs' = [rs EXCEPT ![r] = [@ EXCEPT !.pc = "crashed"]]
    /\ UNCHANGED <<file, ws, call, ledger, seq, now, nmarks>>

\* the cycle ends: nothing was handed out, or the work is marked complete
CycleEnd(r) ==
    /\ \/ rs[r].args.op = "determine" /\ rs[r].commits = <<>>
       \/ rs[r].args.op = "mark" /\ rs[r].args.status = Complete
    /\ Exit(r)

DeployNext ==
    \E r \in Runners :
        \/ \E max_commits \in DeployMaxCommits, config \in DeployConfigs :
                SerialDetermine(r, max_commits, config)
        \/ CleanupDelete(r)
        \/ CleanupResume(r)
        \/ \E rev_list \in DeployRevLists : DetQuery(r, rev_list)
        \/ DetLoop(r)
        \/ DetReturn(r)
        \/ ClaimHanded(r)
        \/ MarkUpsert(r)
        \/ MarkCommit(r)
        \/ FinishWork(r)
        \/ Crash(r)
        \/ CycleEnd(r)

DeploySpec == Init /\ [][DeployNext]_vars

\* inputs of the failure specification: "nosuch" names no commit
FailBatches == {<<"c1", "nosuch">>, <<"c2", "c1">>, <<"nosuch">>, <<"c1">>}
FailConfigs == {PyNone, K12}

\* FailSpec: one runner marks batches, some naming a commit git does not know
FailNext ==
    \/ \E r \in {"r1"} :
        \/ \E shas \in FailBatches, status \in Statuses, config \in FailConfigs :
                CallMark(r, shas, status, "x86_64", config)
        \/ MarkUpsert(r)
        \/ MarkRaise(r)
        \/ MarkCommit(r)
        \/ CallCleanup(r)
        \/ CleanupDelete(r)
        \/ Exit(r)
    \/ Tick

FailSpec == Init /\ [][FailNext]_vars

\* inputs of the storage specification: empty and non-empty documents
StoreConfigs == {EmptyObj, EmptyList, K12, A12}

\* StoreSpec: one runner marks c2 under one document after another
StoreNext ==
    \/ \E r \in {"r1"} :
        \/ \E status \in Statuses, config \in StoreConfigs :
                CallMark(r, <<"c2">>, status, "x86_64", config)
        \/ MarkUpsert(r)
        \/ MarkCommit(r)
        \/ Exit(r)
    \/ Tick

StoreSpec == Init /\ [][StoreNext]_vars

(***************************************************************************)
(* A single runner working through a fixed candidate list: it calls        *)
(* determine, marks what it was handed complete under the same             *)
(* architecture and config, and calls determine again with the same        *)
(* arguments, until it is handed nothing.                                  *)
(***************************************************************************)
LoopRevList == SubSeq(<<"c3", "c2", "c1">>, 1, IF MaxMarks < 3 THEN MaxMarks ELSE 3)
LoopConfigs == {PyNone, EmptyObj, EmptyList, K12, A12}
LoopMaxCommits == {1, 2}

\* the runner's first call of determine fixes max_commits, architecture, config
LoopStart(r, max_commits, architecture, config) ==
    /\ ledger = {}
    /\ CallDetermine(r, max_commits, architecture, config, TRUE)

\* back from determine with commits, the runner benchmarks them and calls
\* mark_commits(complete) with them
LoopMark(r) ==
    /\ rs[r].pc = "done"
    /\ rs[r].args.op = "determine"
    /\ rs[r].commits # <<>>
    /\ nmarks < MaxMarks
    /\ nmarks' = nmarks + 1
    /\ rs' = [rs EXCEPT ![r] =
                [Idle EXCEPT !.pc = "mark", !.i = 1,
                             !.args = [rs[r].args EXCEPT
                                !.op = "mark", !.shas = rs[r].commits,
                                !.status = Complete]]]
    /\ UNCHANGED <<file, ws, call, ledger, seq, now>>

\* back from mark_commits, the runner calls determine with the arguments of
\* its first call
LoopAgain(r) ==
    /\ rs[r].pc = "done"
    /\ rs[r].args.op = "mark"
    /\ rs' = [rs EXCEPT ![r] =
                [Idle EXCEPT !.pc = "determine", !.i = 1,
                             !.args = [rs[r].args EXCEPT
                                !.op = "determine", !.shas = <<>>]]]
    /\ UNCHANGED <<file, ws, call, ledger, seq, now, nmarks>>

LoopNext ==
    \E r \in {"r1"} :
        \/ \E max_commits \in LoopMaxCommits, architecture \in Architectures,
              config \in LoopConfigs :
                LoopStart(r, max_commits, architecture, config)
        \/ CleanupDelete(r)
        \/ DetQuery(r, LoopRevList)
        \/ DetLoop(r)
        \/ DetReturn(r)
        \/ LoopMark(r)
        \/ MarkUpsert(r)
        \/ MarkCommit(r)
        \/ LoopAgain(r)

\* LoopSpec: the runner never stops between two steps of its cycle
LoopSpec == Init /\ [][LoopNext]_vars /\ WF_vars(LoopNext)

\* inputs of the ordering specification: the same commits in both orders
OrderBatches == {<<"c1", "c2">>, <<"c2", "c1">>}

\* OrderSpec: two runners mark batches of the same commits, for the same
\* config and architecture, statement by statement
OrderNext ==
    \E r \in Runners :
        \/ \E shas \in OrderBatches, status \in Statuses :
                CallMark(r, shas, status, "x86_64", K12)
        \/ MarkUpsert(r)
        \/ MarkDeadlock(r)
        \/ MarkCommit(r)
        \/ Exit(r)

OrderSpec == Init /\ [][OrderNext]_vars

\* inputs of the specifications of the file-backed ledger
FileBatches == {<<"c1">>, <<"c2">>, <<"HEAD", "c1">>}
FileRevLists == {<<"c3", "c2", "c1">>}
FileMaxCommits == {1, 3}

\* FileSpec: two processes run workflow_commits.py on the same file, their
\* calls overlapping
FileNext ==
    \E p \in Runners :
        \/ \E shas \in FileBatches, status \in Statuses :
                FileCallMark(p, shas, status)
        \/ FileMarkLoad(p)
        \/ FileSaveOpen(p)
        \/ FileSaveDump(p)
        \/ \E max_commits \in FileMaxCommits : FileCallDetermine(p, max_commits)
        \/ FileCleanup(p)
        \/ \E rev_list \in FileRevLists : FileDetermine(p, rev_list)
        \/ FileExit(p)

FileSpec == Init /\ [][FileNext]_vars

\* TornSpec: one process makes one call after another and may be killed
\* while it writes the file
TornNext ==
    \E p \in {"r1"} :
        \/ \E shas \in FileBatches, status \in Statuses :
                FileCallMark(p, shas, status)
        \/ FileMarkLoad(p)
        \/ FileSaveOpen(p)
        \/ FileSaveDump(p)
        \/ FileKill(p)
        \/ \E max_commits \in FileMaxCommits : FileCallDetermine(p, max_commits)
        \/ FileCleanup(p)
        \/ \E rev_list \in FileRevLists : FileDetermine(p, rev_list)
        \/ FileExit(p)

TornSpec == Init /\ [][TornNext]_vars

\* the documents the comparison functions are called with directly
FieldKeys == {"clients", "tls"}
FieldValues ==
    {Num(1), Num(2), Bool(TRUE), Bool(FALSE), EmptyList,
     List(<<Num(1)>>), List(<<Num(1), Num(2)>>), List(<<Num(2), Num(1)>>),
     List(<<Num(1), Num(1)>>), List(<<Num(1), Num(2), Num(4)>>),
     List(<<Num(1), Num(5)>>), List(<<Bool(TRUE)>>),
     Obj([a |-> Num(1)]), Obj([a |-> Num(1), b |-> Num(2)]),
     List(<<Obj([a |-> Num(1)])>>), List(<<Obj([a |-> Num(1), b |-> Num(2)])>>),
     List(<<Obj([a |-> Num(1)]), Obj([b |-> Num(2)])>>)}
ConfigObjects ==
    {Obj(f) : f \in UNION {[D -> FieldValues] : D \in SUBSET FieldKeys}}
ArrayElems ==
    {EmptyObj, Clients(<<Num(1)>>), Clients(<<Num(2)>>), K12,
     Obj([other |-> Num(1)])}
ConfigArrays ==
    {List(e) : e \in UNION {[1..n -> ArrayElems] : n \in 0..MaxArrayLen}}

\* the arguments of the direct calls: objects (and a few non-objects) for
\* _is_config_subset, arrays of objects (and a non-array) for
\* _is_config_array_subset
ConfigArgs == ConfigObjects \cup {PyNone, A12}
ArrayArgs == ConfigArrays \cup {K12}

\* a comparison function has been called with two documents
FnInit ==
    /\ ledger = {}
    /\ seq = 1
    /\ now = 0
    /\ nmarks = 0
    /\ rs = [r \in Runners |-> Idle]
    /\ file = NoFile
    /\ ws = [p \in Runners |-> WIdle]
    /\ \/ \E a, b \in ConfigArgs :
            call = [fn |-> "_is_config_subset", subset_config |-> a,
                    superset_config |-> b, pc |-> "called", result |-> FALSE]
       \/ \E a, b \in ArrayArgs :
            call = [fn |-> "_is_config_array_subset", subset_config |-> a,
                    superset_config |-> b, pc |-> "called", result |-> FALSE]

\* _is_config_subset(subset_config, superset_config) runs and returns
IsConfigSubsetCall ==
    /\ call.fn = "_is_config_subset"
    /\ call.pc = "called"
    /\ call' = [call EXCEPT !.pc = "returned",
                            !.result = IsConfigSubset(call.subset_config,
                                                      call.superset_config)]
    /\ UNCHANGED <<file, ws, ledger, seq, now, rs, nmarks>>

\* _is_config_array_subset(subset_config, superset_config) runs and returns
IsConfigArraySubsetCall ==
    /\ call.fn = "_is_config_array_subset"
    /\ call.pc = "called"
    /\ call' = [call EXCEPT !.pc = "returned",
                            !.result = IsConfigArraySubset(call.subset_config,
                                                           call.superset_config)]
    /\ UNCHANGED <<file, ws, ledger, seq, now, rs, nmarks>>

\* FnSpec: one direct call of a comparison function on any pair of documents
FnNext == IsConfigSubsetCall \/ IsConfigArraySubsetCall

FnSpec == FnInit /\ [][FnNext]_vars

\* the documents of the chained calls: three at a time
ChainValues ==
    {Num(1), Bool(TRUE), List(<<Num(1)>>), List(<<Num(1), Num(2)>>),
     List(<<Num(2), Num(4)>>), List(<<Bool(TRUE), Num(2), Num(4)>>)}
ChainObjects ==
    {Obj(f) : f \in UNION {[D -> ChainValues] : D \in SUBSET FieldKeys}}
ChainElems == {EmptyObj, K1, K12}
ChainArrays ==
    {List(e) : e \in UNION {[1..n -> ChainElems] : n \in 0..MaxArrayLen}}

\* the pairs of documents a chain compares, in order
ChainPairs == <<<<1, 2>>, <<2, 3>>, <<1, 3>>>>

\* three documents are about to be compared pairwise by one of the
\* comparison functions
ChainInit ==
    /\ ledger = {}
    /\ seq = 1
    /\ now = 0
    /\ nmarks = 0
    /\ rs = [r \in Runners |-> Idle]
    /\ file = NoFile
    /\ ws = [p \in Runners |-> WIdle]
    /\ \/ \E a, b, c \in ChainObjects :
            call = [fn |-> "_is_config_subset", docs |-> <<a, b, c>>,
                    pc |-> "chain", results |-> <<>>]
       \/ \E a, b, c \in ChainArrays :
            call = [fn |-> "_is_config_array_subset", docs |-> <<a, b, c>>,
                    pc |-> "chain", results |-> <<>>]

\* the next call of _is_config_subset in the chain runs and returns
ChainObjectCall ==
    LET pair == ChainPairs[Len(call.results) + 1]
    IN  /\ call.fn = "_is_config_subset"
        /\ call.pc = "chain"
        /\ Len(call.results) < Len(ChainPairs)
        /\ call' = [call EXCEPT !.results =
                        Append(@, IsConfigSubset(call.docs[pair[1]],
                                                 call.docs[pair[2]]))]
        /\ UNCHANGED <<file, ws, ledger, seq, now, rs, nmarks>>

\* the next call of _is_config_array_subset in the chain runs and returns
ChainArrayCall ==
    LET pair == ChainPairs[Len(call.results) + 1]
    IN  /\ call.fn = "_is_config_array_subset"
        /\ call.pc = "chain"
        /\ Len(call.results) < Len(ChainPairs)
        /\ call' = [call EXCEPT !.results =
                        Append(@, IsConfigArraySubset(call.docs[pair[1]],
                                                      call.docs[pair[2]]))]
        /\ UNCHANGED <<file, ws, ledger, seq, now, rs, nmarks>>

\* ChainSpec: one comparison function is called on (a, b), (b, c) and (a, c)
ChainNext == ChainObjectCall \/ ChainArrayCall

ChainSpec == ChainInit /\ [][ChainNext]_vars

(***************************************************************************)
(* Properties.                                                             *)
(***************************************************************************)

\* the (sha, config, architecture) triples a mark_commits call writes
MarkedKeys(a) ==
    {<<ResolveSha(a.shas[k]), StoredConfig(a.config), a.architecture>> :
        k \in 1..Len(a.shas)}

\* runner r has returned from a call of op and has not exited yet
Returned(r, op) == rs[r].pc = "done" /\ rs[r].args.op = op

\* C1: whatever calls of any runners interleave, the ledger never holds two
\* rows with the same (sha, config, architecture).
C1_UniqueTriple == \A x, y \in ledger : Key(x) = Key(y) => x = y

\* C1 witness: two rows for the same sha and architecture under two configs
C1_Witness ==
    \E x, y \in ledger :
        /\ x.sha = y.sha /\ x.architecture = y.architecture
        /\ x.config # y.config

\* C2: when a mark_commits call commits, every triple it marked has exactly
\* one row; a row that existed before is the same row (id, sha, config,
\* architecture, timestamp, created_at unchanged) with the status of the call
\* and an updated_at that did not go back.
C2_IdempotentMark ==
    [][\A r \in Runners :
        (rs[r].pc = "mark" /\ rs'[r].pc = "done") =>
            \A key \in MarkedKeys(rs[r].args) :
                LET olds == {row \in ledger : Key(row) = key}
                    news == {row \in ledger' : Key(row) = key}
                IN  /\ Cardinality(news) = 1
                    /\ \A old \in olds : \A new \in news :
                        /\ new = [old EXCEPT !.status = rs[r].args.status,
                                             !.updated_at = new.updated_at]
                        /\ new.updated_at >= old.updated_at]_vars

\* C2 witness: a returned mark_commits call re-marked an existing row at a
\* later time
C2_Witness ==
    \E r \in Runners : \E row \in ledger :
        /\ Returned(r, "mark")
        /\ Key(row) \in MarkedKeys(rs[r].args)
        /\ row.status = rs[r].args.status
        /\ row.updated_at > row.created_at

\* C3: once a determine call is past its cleanup (about to read the candidate
\* list and the Complete rows, reading them, or returned), and no other call
\* overlaps, the ledger holds no in_progress row of any sha, config or
\* architecture.
C3_CleanupFirst ==
    \A r \in Runners :
        (rs[r].args.op = "determine"
            /\ rs[r].pc \in {"det_query", "det_loop", "done"})
        => \A row \in ledger : row.status # InProgress

\* C3 witness: a determine call returned after its cleanup removed rows
C3_Witness ==
    \E r \in Runners : Returned(r, "determine") /\ rs[r].count > 0

\* C4: the DELETE of a cleanup call removes exactly the in_progress rows,
\* returns how many they were and leaves every complete row as it was; the
\* ledger it leaves has no in_progress row, so a repeated call returns 0.
C4_CleanupScope ==
    [][\A r \in Runners :
        (rs[r].pc = "cleanup" /\ rs'[r].pc = "done") =>
            /\ ledger' = {row \in ledger : row.status = Complete}
            /\ rs'[r].count =
                    Cardinality({row \in ledger : row.status = InProgress})
            /\ ((\A row \in ledger : row.status = Complete)
                    => rs'[r].count = 0)]_vars

\* C4 witness: cleanup returned 1 and only a complete row remains
C4_Witness ==
    \E r \in Runners :
        /\ Returned(r, "cleanup")
        /\ rs[r].count = 1
        /\ Cardinality(ledger) = 1
        /\ \A row \in ledger : row.status = Complete

\* C5 as claimed: after a mark_commits(complete) call has returned, the
\* triples it recorded stay in the ledger whatever calls follow.
C5_CompleteNeverRemoved ==
    \A r \in Runners :
        (Returned(r, "mark") /\ rs[r].args.status = Complete)
        => MarkedKeys(rs[r].args) \subseteq Keys(ledger)

\* C5 amended: no step removes a row whose status is complete; a row leaves
\* the ledger only in the DELETE of a cleanup and only while in_progress.
C5_OnlyInProgressDeleted ==
    [][\A row \in ledger :
        /\ row.status = Complete =>
                \E new \in ledger' : new.id = row.id /\ Key(new) = Key(row)
        /\ row.id \notin Ids(ledger') =>
                /\ row.status = InProgress
                /\ \E r \in Runners :
                    /\ rs[r].pc \in {"cleanup", "determine", "cleanup_wait"}
                    /\ rs'[r].pc \in {"done", "det_query"}]_vars

\* C5 witness: a cleanup removed rows and a complete row is still there
C5_Witness ==
    \E r \in Runners :
        /\ Returned(r, "cleanup")
        /\ rs[r].count > 0
        /\ \E row \in ledger : row.status = Complete

\* the elements of a sequence
Range(q) == {q[j] : j \in 1..Len(q)}

\* the candidates the loop of a returned determine call looked at: all of
\* them, or those up to the one whose append made it break
Visited(r) ==
    LET c == rs[r].commits
        all == rs[r].all_shas
        last == IF c # <<>> /\ Len(c) >= rs[r].args.max_commits
                THEN CHOOSE j \in 1..Len(all) : all[j] = c[Len(c)]
                ELSE Len(all)
    IN  {all[j] : j \in 1..last}

\* a complete row records sha under exactly the configuration of the call
ExactRow(r, sha) ==
    \E row \in ledger :
        /\ row.sha = sha
        /\ row.status = Complete
        /\ row.config = StoredConfig(rs[r].args.config)
        /\ row.architecture = rs[r].args.architecture

\* one document covers another: arrays by IsConfigArraySubset, objects by
\* IsConfigSubset, never across shapes
Covers(requested, recorded) ==
    \/ IsList(requested) /\ IsList(recorded)
        /\ IsConfigArraySubset(requested, recorded)
    \/ IsDict(requested) /\ IsDict(recorded)
        /\ IsConfigSubset(requested, recorded)

\* some complete row of sha on the call's architecture has a config equal to
\* recorded / covering the requested one
HasComplete(r, sha, recorded) ==
    \E row \in ledger :
        /\ row.sha = sha /\ row.status = Complete
        /\ row.architecture = rs[r].args.architecture
        /\ row.config = recorded
CoveredRow(r, sha) ==
    \E row \in ledger :
        /\ row.sha = sha /\ row.status = Complete
        /\ row.architecture = rs[r].args.architecture
        /\ Covers(rs[r].args.config, row.config)

\* C6: a commit recorded complete with config K on architecture A is never in
\* the result of determine(.., A, K), whatever max_commits, the candidate list
\* and enable_subset_detection are.
C6_ExactExcluded ==
    \A r \in Runners :
        Returned(r, "determine") =>
            \A sha \in Range(rs[r].commits) : ~ExactRow(r, sha)

\* C6 witness: with subset detection off, a candidate with an exact complete
\* row was left out of a non-empty result
C6_Witness ==
    \E r \in Runners :
        /\ Returned(r, "determine")
        /\ ~rs[r].args.enable_subset_detection
        /\ rs[r].commits # <<>>
        /\ \E sha \in Visited(r) : ExactRow(r, sha)

\* C7: with subset detection on and a config given, a candidate the loop
\* looked at that has no exact complete row is left out exactly when a
\* complete row of that sha and architecture covers the requested config;
\* complete {"clients":[1,2,4]} covers {"clients":[1,2]} and not
\* {"clients":[1,2,8]}.
C7_SubsetSkip ==
    \A r \in Runners :
        (Returned(r, "determine") /\ rs[r].args.enable_subset_detection
            /\ Truthy(rs[r].args.config))
        => \A sha \in Visited(r) :
            /\ ~ExactRow(r, sha) =>
                    (sha \notin Range(rs[r].commits) <=> CoveredRow(r, sha))
            /\ (rs[r].args.config = K12 /\ HasComplete(r, sha, K124))
                    => sha \notin Range(rs[r].commits)
            /\ (rs[r].args.config = K128
                    /\ \A row \in ledger :
                        (row.sha = sha /\ row.status = Complete
                            /\ row.architecture = rs[r].args.architecture)
                        => row.config = K124)
                    => sha \in Range(rs[r].commits)

\* C7 witness: request {"clients":[1,2]}, the candidate has only a complete
\* {"clients":[1,2,4]} row and is left out
C7_Witness ==
    \E r \in Runners :
        /\ Returned(r, "determine")
        /\ rs[r].args.enable_subset_detection
        /\ rs[r].args.config = K12
        /\ \E sha \in Visited(r) :
            /\ HasComplete(r, sha, K124)
            /\ ~ExactRow(r, sha)
            /\ sha \notin Range(rs[r].commits)

\* C8: with subset detection off only the exact match counts: a candidate the
\* loop looked at that has no exact complete row is in the result, also when
\* a complete row with a covering config exists.
C8_SubsetDisabled ==
    \A r \in Runners :
        (Returned(r, "determine") /\ ~rs[r].args.enable_subset_detection
            /\ Truthy(rs[r].args.config))
        => \A sha \in Visited(r) :
                ~ExactRow(r, sha) => sha \in Range(rs[r].commits)

\* C8 witness: request {"clients":[1,2]} with detection off returns a commit
\* whose complete row is {"clients":[1,2,4]}
C8_Witness ==
    \E r \in Runners :
        /\ Returned(r, "determine")
        /\ ~rs[r].args.enable_subset_detection
        /\ rs[r].args.config = K12
        /\ \E sha \in Range(rs[r].commits) : HasComplete(r, sha, K124)

\* the first n elements of a sequence
Take(q, n) == SubSeq(q, 1, IF n < Len(q) THEN n ELSE Len(q))

\* the candidates of a returned determine call that neither check skips
EligibleOf(r) ==
    LET a == rs[r].args
        exact == ExactCompleted(ledger, a.config, a.architecture)
        Eligible(sha) == ~Skipped(ledger, exact, sha, a)
    IN  SelectSeq(rs[r].all_shas, Eligible)

\* C9: for max_commits >= 1 the result is the first max_commits eligible
\* candidates in the order of the candidate list; it is shorter only when the
\* eligible candidates run out.
C9_FirstEligible ==
    \A r \in Runners :
        (Returned(r, "determine") /\ rs[r].args.max_commits >= 1)
        => rs[r].commits = Take(EligibleOf(r), rs[r].args.max_commits)

\* C9 witness: candidates [c3, c2, c1], c2 complete for the exact config,
\* max_commits = 2, result [c3, c1]
C9_Witness ==
    \E r \in Runners :
        /\ Returned(r, "determine")
        /\ rs[r].args.max_commits = 2
        /\ Truthy(rs[r].args.config)
        /\ rs[r].all_shas = <<"c3", "c2", "c1">>
        /\ ExactRow(r, "c2")
        /\ rs[r].commits = <<"c3", "c1">>

\* C10 as claimed: a determine call with max_commits <= 0 never changes the
\* ledger and never puts a commit in its result.
C10_NonPositiveMax ==
    [][\A r \in Runners :
        (rs'[r].args.op = "determine" /\ rs'[r].args.max_commits <= 0
            /\ rs'[r] # rs[r])
        => ledger' = ledger /\ rs'[r].commits = <<>>]_vars

\* some complete row records sha on the call's architecture, under any config
AnyCompleteRow(r, sha) ==
    \E row \in ledger :
        /\ row.sha = sha /\ row.status = Complete
        /\ row.architecture = rs[r].args.architecture

\* C11 as claimed: without a config the result is made of the first
\* max_commits candidates that have no complete row stored without a
\* configuration, so a commit complete only under a non-empty config is
\* returned.
C11_AbsentConfigReturnsAll ==
    \A r \in Runners :
        (Returned(r, "determine") /\ ~Truthy(rs[r].args.config)
            /\ rs[r].args.max_commits >= 1)
        => LET Open(sha) == ~ExactRow(r, sha)
           IN  rs[r].commits =
                    Take(SelectSeq(rs[r].all_shas, Open), rs[r].args.max_commits)

\* C11 amended: without a config the result is made of the first max_commits
\* candidates that have no complete row on the architecture under any
\* configuration at all; the subset check plays no part.
C11_AbsentConfigAnyComplete ==
    \A r \in Runners :
        (Returned(r, "determine") /\ ~Truthy(rs[r].args.config)
            /\ rs[r].args.max_commits >= 1)
        => LET Open(sha) == ~AnyCompleteRow(r, sha)
           IN  rs[r].commits =
                    Take(SelectSeq(rs[r].all_shas, Open), rs[r].args.max_commits)

\* C11 witness: no config given, a candidate complete only under
\* {"clients":[1,2,4]} is looked at and left out of a non-empty result
C11_Witness ==
    \E r \in Runners :
        /\ Returned(r, "determine")
        /\ rs[r].args.config = PyNone
        /\ rs[r].commits # <<>>
        /\ \E sha \in Visited(r) :
            /\ HasComplete(r, sha, K124)
            /\ ~ExactRow(r, sha)
            /\ sha \notin Range(rs[r].commits)

\* a direct call of fn has returned
FnReturned(fn) == call.fn = fn /\ call.pc = "returned"

\* both values are lists and every element of x is an element of y, or the
\* two values are the same JSON value
SameOrContained(x, y) ==
    IF IsList(x) /\ IsList(y)
    THEN \A i \in 1..Len(x.e) : \E j \in 1..Len(y.e) : x.e[i] = y.e[j]
    ELSE x = y

\* C12 as claimed: on two objects _is_config_subset is true exactly when every
\* key of the first is a key of the second and the two values under it are
\* lists with every element of the first occurring in the second, or are
\* identical.
C12_FieldSubset ==
    (FnReturned("_is_config_subset") /\ IsDict(call.subset_config)
        /\ IsDict(call.superset_config))
    => call.result =
        (\A key \in DOMAIN call.subset_config.f :
            /\ key \in DOMAIN call.superset_config.f
            /\ SameOrContained(call.subset_config.f[key],
                               call.superset_config.f[key]))

\* the arrays holding the elements of array q in another order
Reordered(q) ==
    {List([i \in 1..Len(q.e) |-> q.e[p[i]]]) : p \in Permutations(1..Len(q.e))}

\* C13: on two arrays of objects _is_config_array_subset is true exactly when
\* every object of the first has an object of the second that covers it by
\* _is_config_subset; reordering either array gives the same answer, and a
\* further object in the second never turns true into false.
C13_ArrayCoverage ==
    (FnReturned("_is_config_array_subset") /\ IsList(call.subset_config)
        /\ IsList(call.superset_config))
    => LET a == call.subset_config
           b == call.superset_config
       IN  /\ call.result =
                (\A i \in 1..Len(a.e) : \E j \in 1..Len(b.e) :
                    IsConfigSubset(a.e[i], b.e[j]))
           /\ \A pa \in Reordered(a), pb \in Reordered(b) :
                IsConfigArraySubset(pa, pb) = call.result
           /\ call.result =>
                \A extra \in ArrayElems :
                    /\ IsConfigArraySubset(a, List(Append(b.e, extra)))
                    /\ IsConfigArraySubset(a, List(<<extra>> \o b.e))
           /\ (a = List(<<Clients(<<Num(1)>>)>>)
                /\ b = List(<<K12, Obj([other |-> Num(1)])>>))
                => call.result

\* C13 witness: [{"clients":[1]}] against [{"other":1},{"clients":[1,2]}] is
\* true: the covering object is not at the same position
C13_Witness ==
    /\ FnReturned("_is_config_array_subset")
    /\ call.subset_config = List(<<Clients(<<Num(1)>>)>>)
    /\ call.superset_config = List(<<Obj([other |-> Num(1)]), K12>>)
    /\ call.result

\* C14: the comparison is reflexive: _is_config_subset(x, x) is true for every
\* object x and _is_config_array_subset(x, x) for every array of objects x.
C14_Reflexive ==
    /\ (FnReturned("_is_config_subset") /\ IsDict(call.subset_config)
            /\ call.superset_config = call.subset_config) => call.result
    /\ (FnReturned("_is_config_array_subset") /\ IsList(call.subset_config)
            /\ call.superset_config = call.subset_config) => call.result

\* C14 witness: an object with a list field and a nested array of objects was
\* compared with itself
C14_Witness ==
    /\ FnReturned("_is_config_subset")
    /\ call.superset_config = call.subset_config
    /\ call.subset_config =
            Obj([clients |-> List(<<Num(1), Num(2)>>),
                 tls |-> List(<<Obj([a |-> Num(1)]), Obj([b |-> Num(2)])>>)])
    /\ call.result

\* a nested object, or an array holding an object
IsNested(v) == IsDict(v) \/ (IsList(v) /\ \E i \in 1..Len(v.e) : IsDict(v.e[i]))

\* C15 as claimed: when _is_config_subset returns true, every field of the
\* first object that is a nested object or an array of objects has the equal
\* value in the second.
C15_NestedExactOnly ==
    (FnReturned("_is_config_subset") /\ IsDict(call.subset_config)
        /\ IsDict(call.superset_config) /\ call.result)
    => \A key \in DOMAIN call.subset_config.f :
        IsNested(call.subset_config.f[key])
            => PyEq(call.subset_config.f[key], call.superset_config.f[key])

\* how the code compares the values x and y of a nested field: two arrays by
\* containment of the elements of x, each compared whole, among those of y;
\* anything else by equality
NestedCovered(x, y) ==
    IF IsList(x) /\ IsList(y)
    THEN \A i \in 1..Len(x.e) : \E j \in 1..Len(y.e) : PyEq(x.e[i], y.e[j])
    ELSE PyEq(x, y)

\* C15 amended: a nested object is compared by equality only; an array of
\* objects is compared like any list, by containment of its elements, each
\* element compared whole by equality with no descent into it.
C15_NestedFields ==
    (FnReturned("_is_config_subset") /\ IsDict(call.subset_config)
        /\ IsDict(call.superset_config))
    => LET a == call.subset_config.f
           b == call.superset_config.f
       IN  \A key \in DOMAIN a :
            IsNested(a[key]) =>
                /\ call.result =>
                        (key \in DOMAIN b /\ NestedCovered(a[key], b[key]))
                /\ DOMAIN a = {key} =>
                        (call.result <=>
                            (key \in DOMAIN b /\ NestedCovered(a[key], b[key])))

\* C15 witness: {"clients":[{"a":1}]} is covered by
\* {"clients":[{"a":1},{"b":2}]}
C15_Witness ==
    /\ FnReturned("_is_config_subset")
    /\ call.subset_config = Obj([clients |-> List(<<Obj([a |-> Num(1)])>>)])
    /\ call.superset_config =
            Obj([clients |-> List(<<Obj([a |-> Num(1)]), Obj([b |-> Num(2)])>>)])
    /\ call.result

\* C16: with subset detection on, a candidate is left out only when it has an
\* exact complete row or one single complete row that covers the request;
\* complete rows {"clients":[1]} and {"clients":[2]} together do not cover
\* {"clients":[1,2]} and the commit is returned.
C16_NoUnionCover ==
    \A r \in Runners :
        (Returned(r, "determine") /\ rs[r].args.enable_subset_detection
            /\ Truthy(rs[r].args.config))
        => \A sha \in Visited(r) :
            /\ sha \notin Range(rs[r].commits)
                    => (ExactRow(r, sha) \/ CoveredRow(r, sha))
            /\ (rs[r].args.config = K12
                    /\ \A row \in ledger :
                        (row.sha = sha /\ row.status = Complete
                            /\ row.architecture = rs[r].args.architecture)
                        => row.config \in {K1, K2})
                    => sha \in Range(rs[r].commits)

\* C16 witness: c2 is complete under {"clients":[1]} and under {"clients":[2]}
\* and is returned for {"clients":[1,2]} with subset detection on
C16_Witness ==
    \E r \in Runners :
        /\ Returned(r, "determine")
        /\ rs[r].args.enable_subset_detection
        /\ rs[r].args.config = K12
        /\ HasComplete(r, "c2", K1)
        /\ HasComplete(r, "c2", K2)
        /\ "c2" \in Range(rs[r].commits)

\* C17: when a mark_commits call commits, each triple it marked has exactly one
\* row in the ledger and that row carries the status of this call, whatever
\* other mark_commits calls are in flight or have committed before: no
\* duplicate row, and the call that commits last decides the status.
C17_ConcurrentMark ==
    [][\A r \in Runners :
        (rs[r].pc = "mark" /\ rs'[r].pc = "done") =>
            \A key \in MarkedKeys(rs[r].args) :
                LET news == {row \in ledger' : Key(row) = key}
                IN  /\ Cardinality(news) = 1
                    /\ \A new \in news : new.status = rs[r].args.status]_vars

\* C17 witness: r1 marked [c2, c1] and r2 marked [c1] with another status and
\* the same config; the ids show that r1 wrote c2 before r2 wrote c1, and the
\* single c1 row has r1's status, so r1 was still open when r2 wrote and
\* committed after it
C17_Witness ==
    \E r, q \in Runners :
        /\ r # q
        /\ Returned(r, "mark") /\ Returned(q, "mark")
        /\ rs[r].args.shas = <<"c2", "c1">>
        /\ rs[q].args.shas = <<"c1">>
        /\ rs[r].args.config = rs[q].args.config
        /\ rs[r].args.status # rs[q].args.status
        /\ seq = 4
        /\ Cardinality(ledger) = 2
        /\ \E x, y \in ledger :
            /\ x.sha = "c2" /\ x.id = 1
            /\ y.sha = "c1" /\ y.id = 2 /\ y.status = rs[r].args.status

\* C18: a determine call records nothing about the commits it hands out: none
\* of its steps adds or changes a row (it only deletes) and it holds no row
\* lock, so nothing keeps a second call with the same inputs from being handed
\* the same commit.
C18_DetermineTakesNoClaim ==
    [][\A r \in Runners :
        (rs[r].args.op = "determine" /\ rs[r].pc # "done" /\ rs'[r] # rs[r])
        => (ledger' \subseteq ledger /\ rs'[r].tx = {})]_vars

\* C18 witness: two runners are inside determine at the same time with the same
\* arguments and candidate list, and both have picked the same commit
C18_Witness ==
    \E r, q \in Runners :
        /\ r # q
        /\ rs[r].pc = "det_loop" /\ rs[q].pc = "det_loop"
        /\ rs[r].args.op = "determine"
        /\ rs[r].args = rs[q].args
        /\ rs[r].all_shas = rs[q].all_shas
        /\ rs[r].commits # <<>>
        /\ rs[r].commits = rs[q].commits

\* runner r was handed sha by the determine call it is back from
Handed(r, sha) == Returned(r, "determine") /\ sha \in Range(rs[r].commits)

\* runner r has been handed sha and has not marked it complete yet
Holds(r, sha) ==
    \/ Handed(r, sha)
    \/ /\ rs[r].args.op = "mark"
       /\ sha \in Range(rs[r].args.shas)
       /\ \/ rs[r].args.status = InProgress /\ rs[r].pc \in {"mark", "done"}
          \/ rs[r].args.status = Complete /\ rs[r].pc = "mark"

\* C19 as claimed: with determine calls serialized and every runner marking
\* what it was handed in_progress right after its call, no commit is handed to
\* a runner while another runner, working with the same config and
\* architecture, holds it and has not marked it complete.
C19_NoDoubleHandOut ==
    \A r, q \in Runners : \A sha \in Shas :
        (r # q /\ Handed(q, sha) /\ Holds(r, sha))
        => (rs[r].args.config # rs[q].args.config
                \/ rs[r].args.architecture # rs[q].args.architecture)

\* C20: a runner marked commits in_progress and died; once another runner is
\* back from a determine call with the same config and architecture, the stale
\* rows are gone and each of these commits the call looked at is in its result
\* unless a complete row excludes it (an exact or covering one; any complete
\* row of the architecture when no config is given).
C20_CrashRecovery ==
    \A r, q \in Runners :
        (rs[r].pc = "crashed" /\ Returned(q, "determine")
            /\ rs[r].args.config = rs[q].args.config
            /\ rs[r].args.architecture = rs[q].args.architecture)
        => \A sha \in Range(rs[r].args.shas) :
            /\ \A row \in ledger :
                    Key(row) = <<sha, StoredConfig(rs[q].args.config),
                                 rs[q].args.architecture>>
                        => row.status # InProgress
            /\ sha \in Visited(q) =>
                    \/ sha \in Range(rs[q].commits)
                    \/ ExactRow(q, sha)
                    \/ ~Truthy(rs[q].args.config) /\ AnyCompleteRow(q, sha)
                    \/ /\ rs[q].args.enable_subset_detection
                       /\ Truthy(rs[q].args.config)
                       /\ CoveredRow(q, sha)

\* C20 witness: the next determine call removed the stale row of the dead
\* runner and handed its commit out again
C20_Witness ==
    \E r, q \in Runners :
        /\ rs[r].pc = "crashed"
        /\ Returned(q, "determine")
        /\ rs[r].args.config = rs[q].args.config
        /\ rs[q].count > 0
        /\ \E sha \in Range(rs[r].args.shas) : sha \in Range(rs[q].commits)

\* runner r's mark_commits call has ended with an exception
Failed(r) == rs[r].pc = "failed" /\ rs[r].args.op = "mark"

\* C21 as stated: when a later sha of a batch fails, the ledger holds a row
\* with the status of the call for every earlier sha of the batch
C21_EarlierRowsRemain ==
    \A r \in Runners :
        Failed(r) =>
            \A k \in 1..(rs[r].i - 1) :
                \E row \in ledger :
                    /\ Key(row) = <<ResolveSha(rs[r].args.shas[k]),
                                    StoredConfig(rs[r].args.config),
                                    rs[r].args.architecture>>
                    /\ row.status = rs[r].args.status

\* C21 amended: a mark_commits call that fails at any sha of its batch
\* leaves the ledger as it was before the failing step and, since nothing
\* is committed before the end of the loop, as it was before the call: the
\* rows written for the earlier shas are discarded with the transaction
C21_FailedBatchWritesNothing ==
    [][\A r \in Runners :
            rs[r].pc = "mark" =>
                /\ (rs'[r].pc = "mark" => ledger' = ledger)
                /\ (rs'[r].pc = "failed" =>
                        ledger' = ledger /\ rs'[r].tx = {})]_vars

\* a batch has failed at its second sha, after the first was written, and
\* the ledger holds no row for the first
C21_Witness ==
    \E r \in Runners :
        /\ Failed(r)
        /\ rs[r].i = 2
        /\ \A row \in ledger : row.sha # ResolveSha(rs[r].args.shas[1])

\* C22: after mark_commits(shas, status, architecture, c) returns, for every
\* sha of the batch the ledger holds a row of that architecture whose config
\* is the document c that was passed
C22_StoredVerbatim ==
    \A r \in Runners :
        (Returned(r, "mark") /\ rs[r].args.config # PyNone) =>
            \A k \in 1..Len(rs[r].args.shas) :
                \E row \in ledger :
                    /\ row.sha = ResolveSha(rs[r].args.shas[k])
                    /\ row.architecture = rs[r].args.architecture
                    /\ row.config = rs[r].args.config

\* a complete row records sha on an architecture other than the call's, under
\* a config equal to or covering the requested one
OtherArchRow(r, sha) ==
    \E row \in ledger :
        /\ row.sha = sha /\ row.status = Complete
        /\ row.architecture # rs[r].args.architecture
        /\ \/ row.config = StoredConfig(rs[r].args.config)
           \/ Covers(rs[r].args.config, row.config)

\* C23: rows of different architectures are independent: a candidate the
\* loop of determine(.., A, ..) looked at whose complete rows all belong to
\* other architectures is in the result; neither the exact match nor subset
\* detection skips it.
C23_ArchIndependent ==
    \A r \in Runners :
        Returned(r, "determine") =>
            \A sha \in Visited(r) :
                (\A row \in ledger :
                    (row.sha = sha /\ row.status = Complete)
                        => row.architecture # rs[r].args.architecture)
                    => sha \in Range(rs[r].commits)

\* a determine call with subset detection on has returned a commit that is
\* recorded complete under a covering config on the other architecture
C23_Witness ==
    \E r \in Runners :
        /\ Returned(r, "determine")
        /\ rs[r].args.enable_subset_detection
        /\ Truthy(rs[r].args.config)
        /\ \E sha \in Range(rs[r].commits) : OtherArchRow(r, sha)

\* C25: when two processes mark batches holding the same shas in different
\* orders, for the same config and architecture, neither call is aborted
C25_NeitherAborted == \A r \in Runners : ~Failed(r)

\* C26: a mark_commits call with status complete leaves, when it commits,
\* exactly one row for every triple of its batch, and that row is complete;
\* this also holds when the cleanup of another runner's determine call has
\* deleted the in_progress row the runner had written for the triple.
C26_CompleteAfterCleanup ==
    [][\A r \in Runners :
            (rs[r].pc = "mark" /\ rs'[r].pc = "done"
                /\ rs[r].args.status = Complete) =>
                \A key \in MarkedKeys(rs[r].args) :
                    /\ Cardinality({row \in ledger' : Key(row) = key}) = 1
                    /\ \A row \in ledger' :
                            Key(row) = key => row.status = Complete]_vars

\* the second mark_commits call ever made was a runner's complete mark and
\* had to insert the row afresh: the row the runner had claimed with the
\* first call was deleted by another runner's determine in between
C26_Witness ==
    \E r \in Runners :
        /\ Returned(r, "mark")
        /\ rs[r].args.status = Complete
        /\ nmarks = 2
        /\ \E row \in ledger :
            /\ Key(row) \in MarkedKeys(rs[r].args)
            /\ row.status = Complete
            /\ row.id = 2

\* the rows of a ledger that are complete
CompleteRows(rows) == {row \in rows : row.status = Complete}

\* C27: what determine reads depends on the complete rows only: the
\* exact-match query and every iteration of the loop give what they would
\* give on the ledger without its in_progress rows, so two ledgers with the
\* same complete rows give the same result and an in_progress row never
\* excludes a commit.
C27_OnlyCompleteRows ==
    [][\A r \in Runners :
            /\ (rs[r].pc = "det_query" /\ rs'[r].pc = "det_loop") =>
                    rs'[r].exact_completed =
                        ExactCompleted(CompleteRows(ledger), rs[r].args.config,
                                       rs[r].args.architecture)
            /\ (rs[r].pc = "det_loop" /\ rs'[r].i # rs[r].i) =>
                    (rs[r].all_shas[rs[r].i] \in Range(rs'[r].commits)
                        <=> ~Skipped(CompleteRows(ledger),
                                     rs[r].exact_completed,
                                     rs[r].all_shas[rs[r].i], rs[r].args))]_vars

\* a determine call has returned a commit for which the ledger holds an
\* in_progress row under the call's own config and architecture
C27_Witness ==
    \E r \in Runners :
        /\ Returned(r, "determine")
        /\ \E sha \in Range(rs[r].commits) :
            \E row \in ledger :
                /\ Key(row) = <<sha, StoredConfig(rs[r].args.config),
                                rs[r].args.architecture>>
                /\ row.status = InProgress

\* runner r is back from determine with a commit that the ledger records
\* complete under the architecture and config of the call
HandedCompleted(r) ==
    /\ Returned(r, "determine")
    /\ \E sha \in Range(rs[r].commits) :
        \E row \in ledger :
            /\ Key(row) = <<sha, StoredConfig(rs[r].args.config),
                            rs[r].args.architecture>>
            /\ row.status = Complete

\* C28: a single runner that repeats determine(max_commits >= 1, A, K) and
\* mark_commits(what it was handed, complete, A, K) on a fixed candidate
\* list, for any fixed K (absent and empty included), is never handed a
\* commit it has marked complete and is eventually handed nothing.
C28_LoopEnds ==
    /\ [](\A r \in Runners : ~HandedCompleted(r))
    /\ <>(\E r \in Runners :
            Returned(r, "determine") /\ rs[r].commits = <<>>)

\* the runner has marked every candidate complete, in as many batches as
\* the budget allows, and its next determine call has returned nothing
C28_Witness ==
    \E r \in Runners :
        /\ Returned(r, "determine")
        /\ rs[r].commits = <<>>
        /\ nmarks = MaxMarks
        /\ \A sha \in Range(LoopRevList) :
            \E row \in ledger : row.sha = sha /\ row.status = Complete

\* the three calls of a chain have returned
ChainDone == call.pc = "chain" /\ Len(call.results) = Len(ChainPairs)

\* C29: the subset relation is transitive, for _is_config_subset on objects
\* and for _is_config_array_subset on arrays of objects: when a is a subset
\* of b and b is a subset of c, a is a subset of c.
C29_Transitive ==
    ChainDone => ((call.results[1] /\ call.results[2]) => call.results[3])

\* three different arrays of objects, each contained in the next
C29_Witness ==
    /\ ChainDone
    /\ call.fn = "_is_config_array_subset"
    /\ call.results = <<TRUE, TRUE, TRUE>>
    /\ call.docs[1] # call.docs[2]
    /\ call.docs[2] # call.docs[3]
    /\ call.docs[1] # call.docs[3]
    /\ \E i \in 1..Len(call.docs[1].e) : call.docs[1].e[i] # EmptyObj

\* process p has returned from a call of op in workflow_commits.py
FileReturned(p, op) == ws[p].pc = "done" /\ ws[p].op = op

\* C24: a ledger file that cannot be deserialized is never treated as
\* absent: while the file holds an unclosed array, no determine call returns
\* a commit that one of the readable entries of the file records complete
C24_CorruptNeverHandsOut ==
    \A p \in Runners :
        (FileReturned(p, "determine") /\ file.state = "partial") =>
            \A j \in 1..Len(file.entries) :
                file.entries[j].status = Complete
                    => file.entries[j].sha \notin Range(ws[p].result)

\* C30: when two mark_commits calls with status complete on the same file
\* have both returned, the file has an entry for every sha of both calls
C30_BothMarksTakeEffect ==
    (\A p \in Runners : FileReturned(p, "mark") /\ ws[p].status = Complete) =>
        \A p \in Runners :
            \A k \in 1..Len(ws[p].shas) :
                ResolveSha(ws[p].shas[k]) \in CompletedShas(file)

====
